---- MODULE Spec2Model ----
(***************************************************************************)
(* Retirement planner: the Streamlit shell (src/app.py) and the Monte      *)
(* Carlo engine (src/simulation.py).                                       *)
(*                                                                         *)
(* A browser event (a widget edit, the "Run Simulation" button) changes    *)
(* the widget state and queues a rerun; the rerun executes the whole       *)
(* script top to bottom in a fresh namespace (ScriptRun); when the script  *)
(* ends its namespace is dropped and the page stays on screen (ScriptEnd). *)
(*                                                                         *)
(* Conventions.                                                            *)
(*  - A text is a tuple of one-character strings.                          *)
(*  - Money and returns are exact numbers.  Annual returns are drawn from  *)
(*    whole multiples of 100% (ReturnDraws), so portfolio values stay      *)
(*    integers; a fraction such as the inflation rate is a record          *)
(*    [num, den] in lowest terms.                                          *)
(*  - numpy rows and columns are 1-based here: column y + 1 of the model   *)
(*    is year offset y of the code, row i + 1 is simulation i.             *)
(*  - A per-year percentile is kept in twentieths (value * 20): every rank *)
(*    of the code (10, 25, 50, 75, 90) is a multiple of 5, and the         *)
(*    interpolation weight is (n - 1) * rank / 100.                        *)
(***************************************************************************)
EXTENDS Integers, Sequences, FiniteSets, TLC

VARIABLES
    age_raw, retire_raw, until_raw,                 \* text inputs, left column
    savings_raw, contribution_raw, spending_raw,    \* text inputs, right column
    accumulation_return, accumulation_std,          \* sliders, in percent
    retirement_return, retirement_std,
    inflation_rate,
    num_simulations,                                \* select slider
    ns,             \* the script's namespace during and right after a run
    page,           \* the elements the run emitted, in emission order
    engine_calls,   \* calls of the engine made by the run
    pc              \* "pending" (rerun queued), "rendered", "idle"

widgets == <<age_raw, retire_raw, until_raw, savings_raw, contribution_raw,
             spending_raw, accumulation_return, accumulation_std,
             retirement_return, retirement_std, inflation_rate, num_simulations>>

vars == <<age_raw, retire_raw, until_raw, savings_raw, contribution_raw,
          spending_raw, accumulation_return, accumulation_std,
          retirement_return, retirement_std, inflation_rate, num_simulations,
          ns, page, engine_calls, pc>>

(***************************************************************************)
(* Bounds of the exploration.                                              *)
(***************************************************************************)
\* Largest simulation count explored (the code offers 100 .. 10000).
MaxSims == 3
\* Largest life_expectancy - current_age typed into the form.
MaxYears == 3
\* Largest num_simulations * total_years of an ensemble that is simulated.
MaxCells == 6
\* Longest text typed into a field where every short text is tried.
MaxLen == 3

(***************************************************************************)
(* Program constants.                                                      *)
(***************************************************************************)
DefaultAge == 30
DefaultRetire == 50
DefaultUntil == 90
DefaultSavings == 2400000
DefaultContribution == 90000
DefaultSpending == 400000

RetirementAgeError == "Retirement age must be greater than current age."
LifeExpectancyError == "Life expectancy must be greater than retirement age."

(***************************************************************************)
(* Python string and integer primitives used by parse_int.                 *)
(***************************************************************************)
Digits == {"0", "1", "2", "3", "4", "5", "6", "7", "8", "9"}

DigitValue(c) ==
    CASE c = "0" -> 0 [] c = "1" -> 1 [] c = "2" -> 2 [] c = "3" -> 3
      [] c = "4" -> 4 [] c = "5" -> 5 [] c = "6" -> 6 [] c = "7" -> 7
      [] c = "8" -> 8 [] c = "9" -> 9

\* str.replace(ch, ""): every occurrence of ch removed.
RECURSIVE str_replace(_, _)
str_replace(s, ch) ==
    IF s = <<>> THEN <<>>
    ELSE IF Head(s) = ch THEN str_replace(Tail(s), ch)
    ELSE <<Head(s)>> \o str_replace(Tail(s), ch)

\* str.strip(): leading and trailing whitespace removed.
RECURSIVE lstrip(_)
lstrip(s) ==
    IF s # <<>> /\ Head(s) = " " THEN lstrip(Tail(s)) ELSE s

RECURSIVE rstrip(_)
rstrip(s) ==
    IF s # <<>> /\ s[Len(s)] = " " THEN rstrip(SubSeq(s, 1, Len(s) - 1)) ELSE s

str_strip(s) == rstrip(lstrip(s))

\* The digit part of a base-10 int() argument: digits, single underscores
\* only between two digits.
DigitGroupOk(d) ==
    /\ d # <<>>
    /\ \A i \in 1..Len(d) :
          \/ d[i] \in Digits
          \/ /\ d[i] = "_"
             /\ i > 1 /\ i < Len(d)
             /\ d[i - 1] \in Digits /\ d[i + 1] \in Digits

RECURSIVE DigitsValue(_, _)
DigitsValue(d, acc) ==
    IF d = <<>> THEN acc
    ELSE IF Head(d) = "_" THEN DigitsValue(Tail(d), acc)
    ELSE DigitsValue(Tail(d), 10 * acc + DigitValue(Head(d)))

\* int(s) for a str: whitespace around is ignored, one optional sign, then
\* the digit part.  [ok |-> FALSE] stands for the ValueError.
py_int(s) ==
    LET t    == str_strip(s)
        sgn  == IF t # <<>> /\ Head(t) \in {"+", "-"} THEN Head(t) ELSE ""
        body == IF sgn = "" THEN t ELSE Tail(t)
    IN  IF DigitGroupOk(body)
        THEN [ok |-> TRUE,
              value |-> IF sgn = "-" THEN 0 - DigitsValue(body, 0)
                        ELSE DigitsValue(body, 0)]
        ELSE [ok |-> FALSE, value |-> 0]

\* parse_int that leaves the thousands separators in.
parse_int_keep_commas(raw, default) ==
    LET r == py_int(str_strip(str_replace(raw, "$")))
    IN  IF r.ok THEN r.value ELSE default

parse_int(raw, default) ==
    LET r == py_int(str_strip(str_replace(str_replace(raw, "$"), ",")))
    IN  IF r.ok THEN r.value ELSE default

(***************************************************************************)
(* Exact arithmetic helpers.                                               *)
(***************************************************************************)
RECURSIVE Gcd(_, _)
Gcd(a, b) == IF b = 0 THEN a ELSE Gcd(b, a % b)

\* a / b in lowest terms (a >= 0, b > 0).
Frac(a, b) == LET g == Gcd(a, b) IN [num |-> a \div g, den |-> b \div g]

RECURSIVE Power(_, _)
Power(b, e) == IF e = 0 THEN 1 ELSE b * Power(b, e - 1)

Max(a, b) == IF a >= b THEN a ELSE b

\* The annual returns explored where the standard deviation is positive,
\* as whole returns: -200% and +100%.  A normal variate can be any real.
ReturnDraws == {0 - 2, 1}

\* np.random.normal(mean, std): with std = 0 the draw is the mean itself.
\* The widget states explored keep the mean at 0 wherever std = 0
\* (see Feasible), so the draw is a whole number.
NormalDraws(mean, std) ==
    IF std.num = 0 THEN {mean.num \div mean.den} ELSE ReturnDraws

(***************************************************************************)
(* src/simulation.py: run_simulation                                       *)
(***************************************************************************)
total_years(params) == params.life_expectancy - params.current_age
accumulation_years(params) == params.retirement_age - params.current_age
distribution_years(params) == total_years(params) - accumulation_years(params)

\* annual_spending * (1 + inflation_rate) ** years_in_retirement
adjusted_spending(params, years_in_retirement) ==
    LET r == params.inflation_rate
    IN  (params.annual_spending * Power(r.den + r.num, years_in_retirement))
            \div Power(r.den, years_in_retirement)

\* year_value with the exponent counted from the retirement year itself.
year_value_inflated_first(params, prev, ret, year) ==
    LET growth == prev * (1 + ret)
        unfloored ==
            IF year <= accumulation_years(params)
            THEN growth + params.annual_contribution
            ELSE growth - adjusted_spending(params,
                              year - accumulation_years(params))
    IN  Max(unfloored, 0)

\* year_value without the floor at zero.
year_value_unfloored(params, prev, ret, year) ==
    LET growth == prev * (1 + ret)
    IN  IF year <= accumulation_years(params)
        THEN growth + params.annual_contribution
        ELSE growth - adjusted_spending(params,
                          year - accumulation_years(params) - 1)

\* One pass of the loop body for one row: the value written at column `year`.
year_value(params, prev, ret, year) ==
    LET growth == prev * (1 + ret)
        unfloored ==
            IF year <= accumulation_years(params)
            THEN growth + params.annual_contribution
            ELSE growth - adjusted_spending(params,
                              year - accumulation_years(params) - 1)
    IN  Max(unfloored, 0)

\* for year in range(1, total_years + 1): column year from column year - 1.
RECURSIVE simulate_from(_, _, _, _)
simulate_from(params, annual_returns, results, year) ==
    IF year > total_years(params) THEN results
    ELSE simulate_from(params, annual_returns,
            [i \in DOMAIN results |->
                [results[i] EXCEPT ![year + 1] =
                    year_value(params, results[i][year],
                               annual_returns[i][year], year)]],
            year + 1)

\* annual_returns is what the two np.random.normal calls returned,
\* concatenated along the year axis.
run_simulation(params, n, annual_returns) ==
    LET zeros == [i \in 1..n |-> [y \in 1..(total_years(params) + 1) |-> 0]]
        init  == [i \in 1..n |-> [zeros[i] EXCEPT ![1] = params.current_savings]]
    IN  simulate_from(params, annual_returns, init, 1)

(***************************************************************************)
(* src/simulation.py: calculate_statistics                                 *)
(***************************************************************************)
RECURSIVE Insert(_, _)
Insert(sorted, x) ==
    IF sorted = <<>> THEN <<x>>
    ELSE IF x <= Head(sorted) THEN <<x>> \o sorted
    ELSE <<Head(sorted)>> \o Insert(Tail(sorted), x)

RECURSIVE SortAsc(_)
SortAsc(s) == IF s = <<>> THEN <<>> ELSE Insert(SortAsc(Tail(s)), Head(s))

Column(results, c) == [i \in 1..Len(results) |-> results[i][c]]

\* percentile20 interpolating between neighbours of the unsorted column.
percentile20_unsorted(a, q) ==
    LET n      == Len(a)
        h20    == (n - 1) * (q \div 5)
        lo     == h20 \div 20
        w      == h20 % 20
    IN  IF w = 0 THEN 20 * a[lo + 1]
        ELSE 20 * a[lo + 1] + w * (a[lo + 2] - a[lo + 1])

\* np.percentile(a, q) with the default linear interpolation, times 20.
percentile20(a, q) ==
    LET n      == Len(a)
        sorted == SortAsc(a)
        h20    == (n - 1) * (q \div 5)        \* virtual index, times 20
        lo     == h20 \div 20
        w      == h20 % 20
    IN  IF w = 0 THEN 20 * sorted[lo + 1]
        ELSE 20 * sorted[lo + 1] + w * (sorted[lo + 2] - sorted[lo + 1])

\* np.percentile(results, q, axis=0): one value per year column.
percentile_axis0(results, q) ==
    [c \in 1..Len(results[1]) |-> percentile20(Column(results, c), q)]

\* np.median(a), times 20: the mean of the two middle values, or the middle one.
median20(a) ==
    LET n == Len(a)
        sorted == SortAsc(a)
    IN  IF n % 2 = 1 THEN 20 * sorted[(n + 1) \div 2]
        ELSE 10 * (sorted[n \div 2] + sorted[(n \div 2) + 1])

\* argsort returning a descending order.
argsort_descending(final_values) ==
    LET n == Len(final_values)
    IN  {p \in [1..n -> 1..n] :
            /\ \A i, j \in 1..n : i # j => p[i] # p[j]
            /\ \A i \in 1..(n - 1) :
                  final_values[p[i]] >= final_values[p[i + 1]]}

\* np.argsort(final_values): an index order that sorts the values
\* ascending; numpy's default sort fixes no order among equal values.
argsort(final_values) ==
    LET n == Len(final_values)
    IN  {p \in [1..n -> 1..n] :
            /\ \A i, j \in 1..n : i # j => p[i] # p[j]
            /\ \A i \in 1..(n - 1) :
                  final_values[p[i]] <= final_values[p[i + 1]]}

\* success_rate_of counting rows that end at zero or more.
success_rate_nonnegative(final_values) ==
    LET n == Len(final_values)
        positive == {i \in 1..n : final_values[i] >= 0}
    IN  [num |-> Cardinality(positive) * 100, den |-> n]

\* np.mean(final_values > 0) * 100, as the fraction num / den.
success_rate_of(final_values) ==
    LET n == Len(final_values)
        positive == {i \in 1..n : final_values[i] > 0}
    IN  [num |-> Cardinality(positive) * 100, den |-> n]

\* results[sorted_indices[int(n * pct / 100)]]
representative_run(results, sorted_indices, pct) ==
    LET n == Len(results)
    IN  results[sorted_indices[((n * pct) \div 100) + 1]]

SeqMin(a) == SortAsc(a)[1]
SeqMax(a) == SortAsc(a)[Len(a)]

\* The statistics, given the order np.argsort returned.
statistics_with(results, params, sorted_indices) ==
    LET retirement_year == params.retirement_age - params.current_age
        final_values == Column(results, Len(results[1]))
        retirement_values == Column(results, retirement_year + 1)
    IN  [success_rate |-> success_rate_of(final_values),
         percentiles |->
            [p10 |-> percentile_axis0(results, 10),
             p25 |-> percentile_axis0(results, 25),
             p50 |-> percentile_axis0(results, 50),
             p75 |-> percentile_axis0(results, 75),
             p90 |-> percentile_axis0(results, 90)],
         representative_runs |->
            [p10 |-> representative_run(results, sorted_indices, 10),
             p25 |-> representative_run(results, sorted_indices, 25),
             p50 |-> representative_run(results, sorted_indices, 50),
             p75 |-> representative_run(results, sorted_indices, 75),
             p90 |-> representative_run(results, sorted_indices, 90)],
         final_median |-> median20(final_values),
         final_worst |-> SeqMin(final_values),
         final_best |-> SeqMax(final_values),
         retirement_values |-> retirement_values,
         retirement_median |-> median20(retirement_values)]

\* The set of results calculate_statistics can return.
calculate_statistics(results, params) ==
    {statistics_with(results, params, sorted_indices) :
        sorted_indices \in argsort(Column(results, Len(results[1])))}

(***************************************************************************)
(* src/app.py: the script.                                                 *)
(***************************************************************************)
NoNamespace == [defined |-> {}]
NoCalls == [run_simulation |-> 0, calculate_statistics |-> 0]

\* list(range(current_age, life_expectancy + 1))
ages_of(current_age, life_expectancy) ==
    [k \in 1..(life_expectancy + 1 - current_age) |-> current_age + k - 1]

\* The six parse_int calls.
parse_inputs(w) ==
    [defined |-> {"current_age", "retirement_age", "life_expectancy",
                  "current_savings", "annual_contribution", "annual_spending"},
     current_age |-> parse_int(w.age_raw, DefaultAge),
     retirement_age |-> parse_int(w.retire_raw, DefaultRetire),
     life_expectancy |-> parse_int(w.until_raw, DefaultUntil),
     current_savings |-> parse_int(w.savings_raw, DefaultSavings),
     annual_contribution |-> parse_int(w.contribution_raw, DefaultContribution),
     annual_spending |-> parse_int(w.spending_raw, DefaultSpending)]

\* The params dict built in the else branch of chart_area.
params_of(n, w) ==
    [current_age |-> n.current_age,
     retirement_age |-> n.retirement_age,
     life_expectancy |-> n.life_expectancy,
     current_savings |-> n.current_savings,
     annual_contribution |-> n.annual_contribution,
     annual_spending |-> n.annual_spending,
     accumulation_return |-> Frac(w.accumulation_return, 100),
     accumulation_std |-> Frac(w.accumulation_std, 100),
     retirement_return |-> Frac(w.retirement_return, 100),
     retirement_std |-> Frac(w.retirement_std, 100),
     inflation_rate |-> Frac(w.inflation_rate, 100)]

\* rate >= 80, rate >= 50 on the fraction num / den.
color_of(rate) ==
    IF rate.num >= 80 * rate.den THEN "green"
    ELSE IF rate.num >= 50 * rate.den THEN "orange" ELSE "red"

\* The if / elif / else of chart_area: the branch taken.
chart_branch(n) ==
    IF n.retirement_age <= n.current_age THEN "retirement_error"
    ELSE IF n.life_expectancy <= n.retirement_age THEN "life_error"
    ELSE "simulate"

\* The else branch of chart_area once the engine has returned.  The chart's
\* series are stats.percentiles; the element records the axis and the marker.
chart_rendered(s, params, annual_returns, results, stats) ==
    LET rate == stats.success_rate
        ages == ages_of(s.ns.current_age, s.ns.life_expectancy)
    IN  [ns |-> [defined |-> s.ns.defined \cup
                    {"params", "results", "stats", "rate", "color", "ages"},
                 current_age |-> s.ns.current_age,
                 retirement_age |-> s.ns.retirement_age,
                 life_expectancy |-> s.ns.life_expectancy,
                 current_savings |-> s.ns.current_savings,
                 annual_contribution |-> s.ns.annual_contribution,
                 annual_spending |-> s.ns.annual_spending,
                 params |-> params,
                 annual_returns |-> annual_returns,
                 results |-> results,
                 stats |-> stats,
                 rate |-> rate,
                 color |-> color_of(rate),
                 ages |-> ages],
         page |-> s.page \o
             << [kind |-> "markdown", rate |-> rate, color |-> color_of(rate)],
                [kind |-> "plotly_chart", x |-> ages,
                 vline |-> s.ns.retirement_age] >>,
         calls |-> [run_simulation |-> s.calls.run_simulation + 1,
                    calculate_statistics |-> s.calls.calculate_statistics + 1]]

\* `with chart_area:`.  s = [ns, page, calls]; annual_returns is what the
\* random source yields in this run.  The result is the set of states the
\* block can end in (one per order np.argsort may return).
chart_area(s, w, annual_returns) ==
    IF chart_branch(s.ns) = "retirement_error"
    THEN {[s EXCEPT !.page = Append(@, [kind |-> "error", body |-> RetirementAgeError])]}
    ELSE IF chart_branch(s.ns) = "life_error"
    THEN {[s EXCEPT !.page = Append(@, [kind |-> "error", body |-> LifeExpectancyError])]}
    ELSE
        LET params  == params_of(s.ns, w)
            results == run_simulation(params, w.num_simulations, annual_returns)
        IN  {chart_rendered(s, params, annual_returns, results, stats) :
                stats \in calculate_statistics(results, params)}

\* details_guard testing the first ordering only.
details_guard_first_only(n) ==
    n.retirement_age > n.current_age

\* The condition of the `if` in details_area.
details_guard(n) ==
    n.retirement_age > n.current_age /\ n.life_expectancy > n.retirement_age

\* `with details_area:`.  Reading a name the run never bound raises
\* NameError, which Streamlit shows in place of the element.  The table's
\* columns are ns.stats.representative_runs; the element records its index.
details_area(s) ==
    IF details_guard(s.ns)
    THEN IF {"stats", "ages"} \subseteq s.ns.defined
         THEN [s EXCEPT !.page = Append(@,
                  [kind |-> "dataframe", index |-> s.ns.ages,
                   columns |-> <<"10th Pctl", "25th Pctl", "Median",
                                 "75th Pctl", "90th Pctl">>])]
         ELSE [s EXCEPT !.page = Append(@,
                  [kind |-> "exception", body |-> "NameError"])]
    ELSE s

\* The script from the parse section to its end: the states it can end in.
script(w, annual_returns) ==
    {details_area(s) :
        s \in chart_area([ns |-> parse_inputs(w), page |-> <<>>,
                          calls |-> NoCalls], w, annual_returns)}

(***************************************************************************)
(* Widget states explored.                                                 *)
(***************************************************************************)
TwoDigits(a) ==
    LET d == <<"0", "1", "2", "3", "4", "5", "6", "7", "8", "9">>
    IN  <<d[(a \div 10) + 1], d[(a % 10) + 1]>>

AgeTexts == {TwoDigits(18), <<" ", "1", "9">>, <<"a", "b", "c">>}
RetireTexts == {TwoDigits(19), TwoDigits(20)}
UntilTexts == {TwoDigits(a) : a \in 20..(18 + MaxYears)}
SavingsTexts == {<<"0">>, <<"$", "1", ",", "0", "0", "0">>,
                 <<"-", "1", "0", "0">>, <<"a", "b", "c">>}
ContributionTexts == {<<"$", "1", "0", "0">>, <<"x">>}
SpendingTexts == {<<"$", "4", "0", "0">>, <<"-", "1", "0", "0">>}
AccumulationReturnSteps == {0, 9}
AccumulationStdSteps == {0, 15}
RetirementReturnSteps == {0, 6}
RetirementStdSteps == {0, 3}
InflationSteps == {0, 10}
SimsOptions == 1..MaxSims

W == [age_raw |-> age_raw, retire_raw |-> retire_raw, until_raw |-> until_raw,
      savings_raw |-> savings_raw, contribution_raw |-> contribution_raw,
      spending_raw |-> spending_raw,
      accumulation_return |-> accumulation_return,
      accumulation_std |-> accumulation_std,
      retirement_return |-> retirement_return,
      retirement_std |-> retirement_std,
      inflation_rate |-> inflation_rate,
      num_simulations |-> num_simulations]

\* The widget states explored: an ensemble of at most MaxCells cells, and
\* a zero mean wherever the standard deviation is zero.
Feasible(w) ==
    LET n == parse_inputs(w)
    IN  /\ chart_branch(n) = "simulate" =>
             w.num_simulations * (n.life_expectancy - n.current_age) <= MaxCells
        /\ w.accumulation_std = 0 => w.accumulation_return = 0
        /\ w.retirement_std = 0 => w.retirement_return = 0

\* What the two np.random.normal calls of a run on w can return,
\* concatenated (no call is made when validation fails).
AnnualReturns(w) ==
    LET n == parse_inputs(w)
        params == params_of(n, w)
    IN  IF chart_branch(n) # "simulate"
        THEN {<<>>}
        ELSE LET accum == [1..w.num_simulations ->
                              [1..accumulation_years(params) ->
                                  NormalDraws(params.accumulation_return,
                                              params.accumulation_std)]]
                 retire == [1..w.num_simulations ->
                              [1..distribution_years(params) ->
                                  NormalDraws(params.retirement_return,
                                              params.retirement_std)]]
             IN  {[i \in 1..w.num_simulations |-> a[i] \o r[i]] :
                     a \in accum, r \in retire}

(***************************************************************************)
(* Actions.                                                                *)
(***************************************************************************)
\* The first run of a session whose widget state is w.
Start(w) ==
    /\ age_raw = w.age_raw
    /\ retire_raw = w.retire_raw
    /\ until_raw = w.until_raw
    /\ savings_raw = w.savings_raw
    /\ contribution_raw = w.contribution_raw
    /\ spending_raw = w.spending_raw
    /\ accumulation_return = w.accumulation_return
    /\ accumulation_std = w.accumulation_std
    /\ retirement_return = w.retirement_return
    /\ retirement_std = w.retirement_std
    /\ inflation_rate = w.inflation_rate
    /\ num_simulations = w.num_simulations
    /\ ns = NoNamespace
    /\ page = <<>>
    /\ engine_calls = NoCalls
    /\ pc = "pending"

\* The session starts from a form within the bounds (the code's own
\* defaults, ages 30 / 50 / 90, make an ensemble of 60 years).
StartForm ==
    [age_raw |-> TwoDigits(18), retire_raw |-> TwoDigits(19),
     until_raw |-> TwoDigits(20),
     savings_raw |-> <<"$", "1", ",", "0", "0", "0">>,
     contribution_raw |-> <<"$", "1", "0", "0">>,
     spending_raw |-> <<"$", "4", "0", "0">>,
     accumulation_return |-> 9, accumulation_std |-> 15,
     retirement_return |-> 6, retirement_std |-> 3,
     inflation_rate |-> 0, num_simulations |-> 1]

Init == Start(StartForm)

\* A widget event: the new widget state w is stored and a rerun is queued.
Rerun(w) ==
    /\ pc = "idle"
    /\ Feasible(w)
    /\ age_raw' = w.age_raw
    /\ retire_raw' = w.retire_raw
    /\ until_raw' = w.until_raw
    /\ savings_raw' = w.savings_raw
    /\ contribution_raw' = w.contribution_raw
    /\ spending_raw' = w.spending_raw
    /\ accumulation_return' = w.accumulation_return
    /\ accumulation_std' = w.accumulation_std
    /\ retirement_return' = w.retirement_return
    /\ retirement_std' = w.retirement_std
    /\ inflation_rate' = w.inflation_rate
    /\ num_simulations' = w.num_simulations
    /\ page' = <<>>
    /\ engine_calls' = NoCalls
    /\ pc' = "pending"
    /\ UNCHANGED ns

EditAge == \E t \in AgeTexts \ {age_raw} : Rerun([W EXCEPT !.age_raw = t])
EditRetire == \E t \in RetireTexts \ {retire_raw} : Rerun([W EXCEPT !.retire_raw = t])
EditUntil == \E t \in UntilTexts \ {until_raw} : Rerun([W EXCEPT !.until_raw = t])
EditSavings == \E t \in SavingsTexts \ {savings_raw} : Rerun([W EXCEPT !.savings_raw = t])
EditContribution ==
    \E t \in ContributionTexts \ {contribution_raw} :
        Rerun([W EXCEPT !.contribution_raw = t])
EditSpending ==
    \E t \in SpendingTexts \ {spending_raw} : Rerun([W EXCEPT !.spending_raw = t])
SlideAccumulationReturn ==
    \E v \in AccumulationReturnSteps \ {accumulation_return} :
        Rerun([W EXCEPT !.accumulation_return = v])
SlideAccumulationStd ==
    \E v \in AccumulationStdSteps \ {accumulation_std} :
        Rerun([W EXCEPT !.accumulation_std = v])
SlideRetirementReturn ==
    \E v \in RetirementReturnSteps \ {retirement_return} :
        Rerun([W EXCEPT !.retirement_return = v])
SlideRetirementStd ==
    \E v \in RetirementStdSteps \ {retirement_std} :
        Rerun([W EXCEPT !.retirement_std = v])
SlideInflation ==
    \E v \in InflationSteps \ {inflation_rate} :
        Rerun([W EXCEPT !.inflation_rate = v])
SlideSims ==
    \E v \in SimsOptions \ {num_simulations} :
        Rerun([W EXCEPT !.num_simulations = v])
ClickRunSimulation == Rerun(W)

\* One run of the script on the current widget state.
ScriptRun ==
    /\ pc = "pending"
    /\ \E annual_returns \in AnnualReturns(W) :
          \E out \in script(W, annual_returns) :
              /\ ns' = out.ns
              /\ page' = out.page
              /\ engine_calls' = out.calls
    /\ pc' = "rendered"
    /\ UNCHANGED widgets

\* The script returns: its namespace is dropped, the page stays.
ScriptEnd ==
    /\ pc = "rendered"
    /\ ns' = NoNamespace
    /\ pc' = "idle"
    /\ UNCHANGED <<widgets, page, engine_calls>>

Next ==
    \/ EditAge
    \/ EditRetire
    \/ EditUntil
    \/ EditSavings
    \/ EditContribution
    \/ EditSpending
    \/ SlideAccumulationReturn
    \/ SlideAccumulationStd
    \/ SlideRetirementReturn
    \/ SlideRetirementStd
    \/ SlideInflation
    \/ SlideSims
    \/ ClickRunSimulation
    \/ ScriptRun
    \/ ScriptEnd

Spec == Init /\ [][Next]_vars

(***************************************************************************)
(* Parsing of arbitrary short texts: one text field holds any text of at   *)
(* most MaxLen characters of ParseAlphabet, the other widgets a fixed      *)
(* form, and the script runs on it.                                        *)
(***************************************************************************)
ParseAlphabet == {"0", "1", "$", ",", " ", "-", "+", "_", "a"}
ShortTexts == UNION {[1..m -> ParseAlphabet] : m \in 0..MaxLen}
TextFields == {"age_raw", "retire_raw", "until_raw",
               "savings_raw", "contribution_raw", "spending_raw"}

ParseForm ==
    [StartForm EXCEPT !.accumulation_return = 0, !.accumulation_std = 0,
                      !.retirement_return = 0, !.retirement_std = 0]

InitParse ==
    \E f \in TextFields, t \in ShortTexts :
        LET w == [ParseForm EXCEPT ![f] = t]
        IN  Feasible(w) /\ Start(w)

NextParse == ScriptRun \/ ScriptEnd

SpecParse == InitParse /\ [][NextParse]_vars

(***************************************************************************)
(* Properties.                                                             *)
(***************************************************************************)
Kinds == {page[k].kind : k \in DOMAIN page}
Simulated == pc = "rendered" /\ "results" \in ns.defined
Rows == 1..Len(ns.results)
TotalYears == ns.life_expectancy - ns.current_age
AccumulationYears == ns.retirement_age - ns.current_age
\* The value of simulation row i at year offset y.
Cell(i, y) == ns.results[i][y + 1]
FinalValue(i) == Cell(i, TotalYears)
Max0(x) == IF x > 0 THEN x ELSE 0
\* spending * (1 + rate)^k for the rate the inflation slider shows, in percent.
Inflated(spending, percent, k) ==
    (spending * Power(100 + percent, k)) \div Power(100, k)
Ranks == <<[label |-> "p10", pct |-> 10], [label |-> "p25", pct |-> 25],
           [label |-> "p50", pct |-> 50], [label |-> "p75", pct |-> 75],
           [label |-> "p90", pct |-> 90]>>

\* C1: a run calls run_simulation and calculate_statistics (once each) if
\* and only if retirement_age > current_age and life_expectancy >
\* retirement_age; when retirement_age <= current_age the page is exactly
\* the retirement-age error, otherwise when life_expectancy <=
\* retirement_age exactly the life-expectancy error, both with no engine
\* call; and the details table is never built from names the run did not
\* bind (no NameError).
C1_ValidationGate ==
    pc = "rendered" =>
        LET ordered == /\ ns.retirement_age > ns.current_age
                       /\ ns.life_expectancy > ns.retirement_age
        IN  /\ ordered => engine_calls = [run_simulation |-> 1,
                                           calculate_statistics |-> 1]
            /\ ~ordered => engine_calls = [run_simulation |-> 0,
                                            calculate_statistics |-> 0]
            /\ ns.retirement_age <= ns.current_age =>
                  page = <<[kind |-> "error", body |->
                      "Retirement age must be greater than current age."]>>
            /\ (ns.retirement_age > ns.current_age
                    /\ ns.life_expectancy <= ns.retirement_age) =>
                  page = <<[kind |-> "error", body |->
                      "Life expectancy must be greater than retirement age."]>>
            /\ "exception" \notin Kinds
            /\ "dataframe" \in Kinds =>
                  "stats" \in ns.defined /\ engine_calls.calculate_statistics = 1

\* A run rejected by the second check: no engine call, only the message.
C1_Witness ==
    /\ pc = "rendered"
    /\ ns.retirement_age > ns.current_age
    /\ ns.life_expectancy <= ns.retirement_age
    /\ engine_calls.run_simulation = 0
    /\ Len(page) = 1
    /\ page[1].body = LifeExpectancyError

\* C2: every cell of the ensemble the shell gets back from run_simulation,
\* year 0 included, is >= 0.
C2_FloorInvariant ==
    Simulated => \A i \in Rows : \A y \in 0..TotalYears : Cell(i, y) >= 0

\* C3 as stated: a value of exactly 0 at year y < total_years is followed
\* by exactly 0 at every later year of the row.
C3_StickyEverywhere ==
    Simulated =>
        \A i \in Rows : \A y \in 0..(TotalYears - 1) :
            Cell(i, y) = 0 => \A z \in (y + 1)..TotalYears : Cell(i, z) = 0

\* C3 amended: a value of exactly 0 at year y is followed, when year y + 1
\* is a retirement year, by max(0, -adjusted spending of year y + 1), and
\* the row then stays at exactly 0 for all later years if annual_spending
\* >= 0; when year y + 1 is an accumulation year it is followed by
\* max(0, annual_contribution).
C3_StickyInRetirement ==
    Simulated =>
        \A i \in Rows : \A y \in 0..(TotalYears - 1) :
            Cell(i, y) = 0 =>
                IF y + 1 <= AccumulationYears
                THEN Cell(i, y + 1) = Max0(ns.annual_contribution)
                ELSE /\ Cell(i, y + 1) =
                            Max0(0 - Inflated(ns.annual_spending, inflation_rate,
                                              y - AccumulationYears))
                     /\ ns.annual_spending >= 0 =>
                            \A z \in (y + 1)..TotalYears : Cell(i, z) = 0

\* A row that is depleted by a withdrawal before the last year, and stays so.
C3_Witness ==
    /\ Simulated
    /\ ns.annual_spending > 0
    /\ \E i \in Rows : \E y \in (AccumulationYears + 1)..(TotalYears - 1) :
          Cell(i, y - 1) > 0 /\ Cell(i, y) = 0 /\ Cell(i, y + 1) = 0

\* The recurrence of C4, for row i, from the returns the run drew.
RECURSIVE Reference(_, _)
Reference(i, year) ==
    IF year = 0 THEN ns.current_savings
    ELSE LET grown == Reference(i, year - 1) * (1 + ns.annual_returns[i][year])
         IN  IF year <= AccumulationYears
             THEN Max0(grown + ns.annual_contribution)
             ELSE Max0(grown - Inflated(ns.annual_spending, inflation_rate,
                                        year - AccumulationYears - 1))

\* C4: the ensemble has num_simulations rows of total_years + 1 columns
\* and equals the recurrence: year 0 is current_savings; a year up to the
\* retirement offset adds annual_contribution to the grown value; a later
\* year subtracts annual_spending inflated by the number of retirement
\* years already past (none for the first); each floored at 0.
C4_Recurrence ==
    Simulated =>
        /\ Len(ns.results) = num_simulations
        /\ \A i \in Rows :
              /\ Len(ns.results[i]) = TotalYears + 1
              /\ \A y \in 0..TotalYears : Cell(i, y) = Reference(i, y)

\* A run with inflation, where the second retirement year's withdrawal is
\* larger than the first and neither depletes the row.
C4_Witness ==
    /\ Simulated
    /\ inflation_rate > 0
    /\ ns.annual_spending > 0
    /\ TotalYears - AccumulationYears >= 2
    /\ AccumulationYears >= 1
    /\ \E i \in Rows : \A y \in 0..TotalYears : Cell(i, y) > 0

RECURSIVE CountPositive(_)
CountPositive(k) ==
    IF k = 0 THEN 0
    ELSE CountPositive(k - 1) + (IF FinalValue(k) > 0 THEN 1 ELSE 0)

\* C5: success_rate = 100 * (rows whose final-year value is > 0) /
\* num_simulations, so it lies in [0, 100]; a row ending at 0 is not a
\* success.
C5_SuccessRate ==
    Simulated =>
        LET rate == ns.stats.success_rate
            n == Len(ns.results)
        IN  /\ rate.den > 0
            /\ rate.num * n = 100 * CountPositive(n) * rate.den
            /\ 0 <= rate.num /\ rate.num <= 100 * rate.den

\* An ensemble with a row ending at exactly 0 and a row ending above 0.
C5_Witness ==
    /\ Simulated
    /\ \E i, j \in Rows : FinalValue(i) = 0 /\ FinalValue(j) > 0
    /\ ns.stats.success_rate.num > 0

\* C6: there is an ascending order of the rows by final-year value such
\* that, for each rank p, the representative run is the whole row at
\* zero-based position floor(n * p / 100) of that order; the position is
\* below n; and the final-year values of the p10 .. p90 runs never
\* decrease.
C6_RepresentativeRuns ==
    Simulated =>
        LET n == Len(ns.results)
            runs == ns.stats.representative_runs
        IN  /\ \A k \in DOMAIN Ranks : (n * Ranks[k].pct) \div 100 < n
            /\ \E order \in Permutations(1..n) :
                  /\ \A a \in 1..(n - 1) :
                        FinalValue(order[a]) <= FinalValue(order[a + 1])
                  /\ \A k \in DOMAIN Ranks :
                        runs[Ranks[k].label] =
                            ns.results[order[((n * Ranks[k].pct) \div 100) + 1]]
            /\ \A k \in 1..(Len(Ranks) - 1) :
                  runs[Ranks[k].label][TotalYears + 1]
                      <= runs[Ranks[k + 1].label][TotalYears + 1]

\* Three rows with three different final values: the five runs are three
\* different rows.
C6_Witness ==
    /\ Simulated
    /\ Len(ns.results) = 3
    /\ FinalValue(1) > FinalValue(2)
    /\ FinalValue(2) > FinalValue(3)
    /\ ns.stats.representative_runs.p10 = ns.results[3]
    /\ ns.stats.representative_runs.p90 = ns.results[1]

\* C7: at every year column the percentile series satisfy p10 <= p25 <=
\* p50 <= p75 <= p90, each series has total_years + 1 values, and each
\* value lies between the least and the greatest value of its column
\* (series values are in twentieths).
C7_PercentileOrdering ==
    Simulated =>
        LET series == ns.stats.percentiles
        IN  /\ \A k \in DOMAIN Ranks :
                  Len(series[Ranks[k].label]) = TotalYears + 1
            /\ \A y \in 0..TotalYears :
                  /\ \A k \in 1..(Len(Ranks) - 1) :
                        series[Ranks[k].label][y + 1]
                            <= series[Ranks[k + 1].label][y + 1]
                  /\ \A k \in DOMAIN Ranks :
                        /\ \E i \in Rows :
                              20 * Cell(i, y) <= series[Ranks[k].label][y + 1]
                        /\ \E i \in Rows :
                              series[Ranks[k].label][y + 1] <= 20 * Cell(i, y)

\* A column whose rows are listed in descending order and whose five
\* percentiles are all different.
C7_Witness ==
    /\ Simulated
    /\ Len(ns.results) = 3
    /\ FinalValue(1) > FinalValue(2)
    /\ FinalValue(2) > FinalValue(3)
    /\ \A k \in 1..(Len(Ranks) - 1) :
          ns.stats.percentiles[Ranks[k].label][TotalYears + 1]
              < ns.stats.percentiles[Ranks[k + 1].label][TotalYears + 1]

\* C8: the parameters of every run_simulation call satisfy the data-model
\* constraints: 18 <= current_age <= 80, 19 <= retirement_age <= 90,
\* 20 <= life_expectancy <= 120, and non-negative savings, contribution
\* and spending.
C8_ParameterConstraints ==
    (pc = "rendered" /\ engine_calls.run_simulation > 0) =>
        /\ 18 <= ns.params.current_age /\ ns.params.current_age <= 80
        /\ 19 <= ns.params.retirement_age /\ ns.params.retirement_age <= 90
        /\ 20 <= ns.params.life_expectancy /\ ns.params.life_expectancy <= 120
        /\ ns.params.current_savings >= 0
        /\ ns.params.annual_contribution >= 0
        /\ ns.params.annual_spending >= 0

(***************************************************************************)
(* C9: the parse rule as the claim words it.                               *)
(***************************************************************************)
\* The text without its "$" and "," characters.
Unformatted(raw) == SelectSeq(raw, LAMBDA c : c \notin {"$", ","})
\* The text without the blanks around it.
Trimmed(t) ==
    LET inked == {k \in 1..Len(t) : t[k] # " "}
    IN  IF inked = {} THEN <<>>
        ELSE SubSeq(t, CHOOSE k \in inked : \A m \in inked : k <= m,
                       CHOOSE k \in inked : \A m \in inked : k >= m)
\* A decimal integer literal as int() reads it: an optional sign, then
\* digits, where one "_" may stand between two digits.
Unsigned(t) == IF t # <<>> /\ t[1] \in {"+", "-"} THEN SubSeq(t, 2, Len(t)) ELSE t
IsIntegerLiteral(t) ==
    LET u == Unsigned(t)
    IN  /\ Len(u) >= 1
        /\ u[1] \in Digits /\ u[Len(u)] \in Digits
        /\ \A k \in 1..Len(u) : u[k] \in Digits \cup {"_"}
        /\ \A k \in 1..(Len(u) - 1) : ~(u[k] = "_" /\ u[k + 1] = "_")
RECURSIVE Magnitude(_)
Magnitude(u) ==
    IF u = <<>> THEN 0
    ELSE LET rest == SubSeq(u, 1, Len(u) - 1)
             last == u[Len(u)]
         IN  IF last = "_" THEN Magnitude(rest)
             ELSE 10 * Magnitude(rest) + DigitValue(last)
LiteralValue(t) ==
    IF t[1] = "-" THEN 0 - Magnitude(Unsigned(t)) ELSE Magnitude(Unsigned(t))
Expected(raw, default) ==
    LET t == Trimmed(Unformatted(raw))
    IN  IF IsIntegerLiteral(t) THEN LiteralValue(t) ELSE default

C10_AllResultElements ==
    (pc = "rendered" /\ engine_calls.calculate_statistics > 0) =>
        /\ {"markdown", "metric", "plotly_chart", "histogram", "dataframe"}
              \subseteq Kinds
        /\ \A k \in DOMAIN page :
              page[k].kind = "dataframe" =>
                  page[k].index =
                      [a \in 1..(TotalYears + 1) |-> ns.current_age + a - 1]

====
